---- MODULE Spec2Model ----
(***************************************************************************)
(* Model of the curation procedure of metabonet                            *)
(* (src/metabonet/metabocurator/curation.py): the four directive stages    *)
(* curate_compartments, curate_processes, curate_metabolites and           *)
(* curate_reactions, the replicate filter, and execute_procedure, which    *)
(* threads the reaction collection through them.                           *)
(*                                                                         *)
(* A collection (a Python dict) is a function from its keys to records; a  *)
(* Python list is a sequence.  Every stage works on deep copies, so the    *)
(* collections read from file (source) stay as they were.  One action is   *)
(* one iteration of a stage's loop over its directive records; the         *)
(* directive of an iteration is drawn from a bounded set.                  *)
(***************************************************************************)
EXTENDS Naturals, Sequences, FiniteSets, TLC

VARIABLES
    source,               \* the four collections as read_source returned them
    compartments,         \* compartments_novel of curate_compartments
    processes,            \* processes_novel of curate_processes
    metabolites,          \* metabolites_novel of curate_metabolites
    reactions,            \* reactions_novel of the stage in progress
    reactions_replicates, \* that local of curate_reactions: <<>> while unbound
    pc,                   \* the stage in progress, "done" or "error"
    record,               \* <<the directive of the last iteration>>, or <<>>
    before,               \* the working collections before the last iteration
    applied,              \* iterations of the stage in progress so far
    curation,             \* the directive list given to the repeated stage
    product,              \* the outputs of the successive runs of that stage
    arguments             \* the collections the caller passed to the stage in
                          \* progress: as passed, and as the caller holds them now

vars == <<source, compartments, processes, metabolites, reactions,
          reactions_replicates, pc, record, before, applied, curation, product,
          arguments>>

----------------------------------------------------------------------------
(* Bounds of the model. *)

MaxDirectives == 2
MaxParticipants == 2
MaxProcesses == 2
MaxReplicates == 2
MaxStageDirectives == 1
MaxRepeatDirectives == 2
MaxReferences == 2

(* The identifiers and values the collections and directives are built of. *)
CompartmentIds == {"c", "e"}
ProcessIds == {"P1", "P2"}
MetaboliteIds == {"M1", "M2"}
ReactionIds == {"R1", "R2"}
Names == {"n1", "n2"}

(* Insertion order of the reaction dict (Python dicts iterate in it). *)
ReactionOrder == <<"R1", "R2">>

----------------------------------------------------------------------------
(* Python dict and list primitives. *)

\* del d[k]
Del(d, k) == [x \in DOMAIN d \ {k} |-> d[x]]

\* d[k] = v
Put(d, k, v) == [x \in DOMAIN d \cup {k} |-> IF x = k THEN v ELSE d[x]]

\* the empty dict
Empty == [x \in {} |-> x]

\* value in list
In(value, list) == \E i \in DOMAIN list : list[i] = value

\* all sequences over S of length at most n
SeqUpTo(S, n) == UNION {[1..k -> S] : k \in 0..n}

\* a list without duplicates
Unique(list) == \A i, j \in DOMAIN list : list[i] = list[j] => i = j

\* utility.collect_unique_elements: the first occurrence of each element, in order
RECURSIVE collect_unique_elements(_)
collect_unique_elements(elements) ==
    IF elements = <<>> THEN <<>>
    ELSE LET front == collect_unique_elements(SubSeq(elements, 1, Len(elements) - 1))
             last == elements[Len(elements)]
         IN IF In(last, front) THEN front ELSE Append(front, last)

\* Mutant: the stage works on the object it was given.
deepcopy_reference(object) ==
    [value |-> object, shared |-> TRUE]

\* copy.deepcopy: a new object of the same value that shares nothing with the
\* object copied, so that a write to the one is no write to the other
deepcopy(object) ==
    [value |-> object, shared |-> FALSE]

\* The caller's view of a stage called on an entity collection and a reaction
\* collection, of which the stage takes the copies entities_novel and
\* reactions_novel.
Call(entities, entities_novel, reactions_original, reactions_novel) ==
    [passed |-> [entities |-> entities, reactions |-> reactions_original],
     held |-> [entities |-> entities, reactions |-> reactions_original],
     shared |-> [entities |-> entities_novel.shared,
                 reactions |-> reactions_novel.shared]]

\* The caller's view after the stage has written entities_novel and
\* reactions_novel to its working collections.
Written(view, entities_novel, reactions_novel) ==
    [view EXCEPT
        !.held.entities = IF view.shared.entities THEN entities_novel ELSE @,
        !.held.reactions = IF view.shared.reactions THEN reactions_novel ELSE @]

----------------------------------------------------------------------------
(* curate_compartments *)

\* Mutant: only the first participant is looked at.
determine_reaction_compartment_first(compartment, reaction) ==
    /\ Len(reaction.participants) > 0
    /\ reaction.participants[1].compartment = compartment

\* determine_reaction_compartment
determine_reaction_compartment(compartment, reaction) ==
    \E i \in DOMAIN reaction.participants :
        reaction.participants[i].compartment = compartment

\* Mutant: a directive that changes the identifier rewrites the compartment of
\* the participants that are in identifier_original.
CompartmentsIteration_rewrite(rec, compartments_novel, reactions_novel) ==
    LET identifier_original == rec.identifier_original
        identifier_novel == rec.identifier_novel
        match_names == rec.name_original = rec.name_novel
        rewritten == [key \in DOMAIN reactions_novel |->
                         [reactions_novel[key] EXCEPT !.participants =
                             [i \in DOMAIN @ |->
                                 IF @[i].compartment = identifier_original
                                 THEN [@[i] EXCEPT !.compartment = identifier_novel]
                                 ELSE @[i]]]]
    IN IF identifier_novel = "null"
       THEN IF identifier_original \in DOMAIN compartments_novel
            THEN LET removals == {key \in DOMAIN reactions_novel :
                                     determine_reaction_compartment(
                                         identifier_original, reactions_novel[key])}
                 IN [entities |-> Del(compartments_novel, identifier_original),
                     reactions |-> [key \in DOMAIN reactions_novel \ removals |->
                                       reactions_novel[key]]]
            ELSE [entities |-> compartments_novel, reactions |-> reactions_novel]
       ELSE IF ~match_names /\ identifier_original \in DOMAIN compartments_novel
            THEN [entities |-> [compartments_novel EXCEPT
                                   ![identifier_original].name = rec.name_novel],
                  reactions |-> rewritten]
            ELSE [entities |-> compartments_novel, reactions |-> rewritten]

\* Mutant: a delete directive removes the reactions of the compartment whether
\* or not the compartment is a key.
CompartmentsIteration_always(rec, compartments_novel, reactions_novel) ==
    LET identifier_original == rec.identifier_original
        match_names == rec.name_original = rec.name_novel
        removals == {key \in DOMAIN reactions_novel :
                        determine_reaction_compartment(
                            identifier_original, reactions_novel[key])}
    IN IF rec.identifier_novel = "null"
       THEN [entities |-> Del(compartments_novel, identifier_original),
             reactions |-> [key \in DOMAIN reactions_novel \ removals |->
                               reactions_novel[key]]]
       ELSE IF ~match_names /\ identifier_original \in DOMAIN compartments_novel
            THEN [entities |-> [compartments_novel EXCEPT
                                   ![identifier_original].name = rec.name_novel],
                  reactions |-> reactions_novel]
            ELSE [entities |-> compartments_novel, reactions |-> reactions_novel]

\* Mutant: a delete directive removes the compartment and no reaction.
CompartmentsIteration_alone(rec, compartments_novel, reactions_novel) ==
    LET identifier_original == rec.identifier_original
        match_names == rec.name_original = rec.name_novel
    IN IF rec.identifier_novel = "null"
       THEN [entities |-> Del(compartments_novel, identifier_original),
             reactions |-> reactions_novel]
       ELSE IF ~match_names /\ identifier_original \in DOMAIN compartments_novel
            THEN [entities |-> [compartments_novel EXCEPT
                                   ![identifier_original].name = rec.name_novel],
                  reactions |-> reactions_novel]
            ELSE [entities |-> compartments_novel, reactions |-> reactions_novel]

\* One iteration of the loop of curate_compartments over compartments_curation.
CompartmentsIteration(rec, compartments_novel, reactions_novel) ==
    LET identifier_original == rec.identifier_original
        identifier_novel == rec.identifier_novel
        match_names == rec.name_original = rec.name_novel
    IN IF identifier_novel = "null"
       THEN IF identifier_original \in DOMAIN compartments_novel
            THEN LET removals == {key \in DOMAIN reactions_novel :
                                     determine_reaction_compartment(
                                         identifier_original, reactions_novel[key])}
                 IN [entities |-> Del(compartments_novel, identifier_original),
                     reactions |-> [key \in DOMAIN reactions_novel \ removals |->
                                       reactions_novel[key]]]
            ELSE [entities |-> compartments_novel, reactions |-> reactions_novel]
       ELSE IF ~match_names /\ identifier_original \in DOMAIN compartments_novel
            THEN [entities |-> [compartments_novel EXCEPT
                                   ![identifier_original].name = rec.name_novel],
                  reactions |-> reactions_novel]
            ELSE [entities |-> compartments_novel, reactions |-> reactions_novel]

----------------------------------------------------------------------------
(* curate_processes *)

\* Mutant: the changed list is stored without collecting its unique values.
RECURSIVE ChangeReactionsProcesses_all(_, _, _, _)
ChangeReactionsProcesses_all(reactions_novel, identifier_original, identifier_novel, index) ==
    IF index > Len(ReactionOrder) THEN reactions_novel
    ELSE IF ReactionOrder[index] \notin DOMAIN reactions_novel
    THEN ChangeReactionsProcesses_all(
             reactions_novel, identifier_original, identifier_novel, index + 1)
    ELSE LET reaction == reactions_novel[ReactionOrder[index]]
             list == reaction.processes
             changed == [i \in DOMAIN list |->
                            IF list[i] = identifier_original
                            THEN identifier_novel ELSE list[i]]
         IN ChangeReactionsProcesses_all(
                Put(reactions_novel, reaction.identifier,
                    [reaction EXCEPT !.processes = changed]),
                identifier_original, identifier_novel, index + 1)

\* The body of the loop over reactions_novel.values() in curate_processes, for
\* the reactions at positions index.. of the dict's order.
RECURSIVE ChangeReactionsProcesses(_, _, _, _)
ChangeReactionsProcesses(reactions_novel, identifier_original, identifier_novel, index) ==
    IF index > Len(ReactionOrder) THEN reactions_novel
    ELSE IF ReactionOrder[index] \notin DOMAIN reactions_novel
    THEN ChangeReactionsProcesses(
             reactions_novel, identifier_original, identifier_novel, index + 1)
    ELSE LET reaction == reactions_novel[ReactionOrder[index]]
             list == reaction.processes
             changed == [i \in DOMAIN list |->
                            IF list[i] = identifier_original
                            THEN identifier_novel ELSE list[i]]
             processes_unique == collect_unique_elements(changed)
         IN IF In(identifier_original, list)
            THEN ChangeReactionsProcesses(
                     Put(reactions_novel, reaction.identifier,
                         [reaction EXCEPT !.processes = processes_unique]),
                     identifier_original, identifier_novel, index + 1)
            ELSE ChangeReactionsProcesses(
                     reactions_novel, identifier_original, identifier_novel, index + 1)

\* Mutant: a delete directive also removes the process from every reaction's list.
ProcessesIteration_cascade(rec, processes_novel, reactions_novel) ==
    LET identifier_original == rec.identifier_original
        identifier_novel == rec.identifier_novel
        match_identifiers == identifier_original = identifier_novel
        match_names == rec.name_original = rec.name_novel
        Other(process) == process # identifier_original
    IN IF identifier_novel = "null"
       THEN [entities |-> Del(processes_novel, identifier_original),
             reactions |-> [key \in DOMAIN reactions_novel |->
                               [reactions_novel[key] EXCEPT
                                   !.processes = SelectSeq(@, Other)]]]
       ELSE LET removed == IF ~match_identifiers
                           THEN Del(processes_novel, identifier_original)
                           ELSE processes_novel
                changed == IF ~match_identifiers /\ identifier_novel \in DOMAIN removed
                           THEN ChangeReactionsProcesses(
                                    reactions_novel, identifier_original,
                                    identifier_novel, 1)
                           ELSE reactions_novel
                named == IF ~match_names /\ identifier_novel \in DOMAIN removed
                         THEN [removed EXCEPT ![identifier_novel].name = rec.name_novel]
                         ELSE removed
            IN [entities |-> named, reactions |-> changed]

\* Mutant: the reactions are rewritten whether or not identifier_novel is a key.
ProcessesIteration_unguarded(rec, processes_novel, reactions_novel) ==
    LET identifier_original == rec.identifier_original
        identifier_novel == rec.identifier_novel
        match_identifiers == identifier_original = identifier_novel
        match_names == rec.name_original = rec.name_novel
    IN IF identifier_novel = "null"
       THEN [entities |-> Del(processes_novel, identifier_original),
             reactions |-> reactions_novel]
       ELSE LET removed == IF ~match_identifiers
                           THEN Del(processes_novel, identifier_original)
                           ELSE processes_novel
                changed == IF ~match_identifiers
                           THEN ChangeReactionsProcesses(
                                    reactions_novel, identifier_original,
                                    identifier_novel, 1)
                           ELSE reactions_novel
                named == IF ~match_names /\ identifier_novel \in DOMAIN removed
                         THEN [removed EXCEPT ![identifier_novel].name = rec.name_novel]
                         ELSE removed
            IN [entities |-> named, reactions |-> changed]

\* One iteration of the loop of curate_processes over processes_curation.
ProcessesIteration(rec, processes_novel, reactions_novel) ==
    LET identifier_original == rec.identifier_original
        identifier_novel == rec.identifier_novel
        match_identifiers == identifier_original = identifier_novel
        match_names == rec.name_original = rec.name_novel
    IN IF identifier_novel = "null"
       THEN [entities |-> Del(processes_novel, identifier_original),
             reactions |-> reactions_novel]
       ELSE LET removed == IF ~match_identifiers
                           THEN Del(processes_novel, identifier_original)
                           ELSE processes_novel
                changed == IF ~match_identifiers /\ identifier_novel \in DOMAIN removed
                           THEN ChangeReactionsProcesses(
                                    reactions_novel, identifier_original,
                                    identifier_novel, 1)
                           ELSE reactions_novel
                named == IF ~match_names /\ identifier_novel \in DOMAIN removed
                         THEN [removed EXCEPT ![identifier_novel].name = rec.name_novel]
                         ELSE removed
            IN [entities |-> named, reactions |-> changed]

----------------------------------------------------------------------------
(* curate_metabolites *)

\* Mutant: a participant to replace is omitted like one to remove.
ChangeParticipants_omit(participants_original, metabolite_original, metabolite_novel, remove, replace) ==
    LET Keep(party) == party.metabolite # metabolite_original
    IN SelectSeq(participants_original, Keep)

\* Mutant: of consecutive participants to remove, the one after a removed one
\* is passed over (removal from the list that is being iterated).
ChangeParticipants_skip(participants_original, metabolite_original, metabolite_novel, remove, replace) ==
    LET Matches(i) == participants_original[i].metabolite = metabolite_original
        Omitted(i) == Matches(i) /\ (i = 1 \/ ~Matches(i - 1))
        places == {i \in DOMAIN participants_original : ~(remove /\ Omitted(i))}
        Place(n) == CHOOSE i \in places : Cardinality({j \in places : j <= i}) = n
    IN [n \in 1..Cardinality(places) |->
           IF Matches(Place(n)) /\ ~remove /\ replace
           THEN [participants_original[Place(n)] EXCEPT !.metabolite = metabolite_novel]
           ELSE participants_original[Place(n)]]

\* Mutant: equal participants are collected into one after a replacement.
ChangeParticipants_unique(participants_original, metabolite_original, metabolite_novel, remove, replace) ==
    LET Keep(party) == \/ party.metabolite # metabolite_original
                       \/ (~remove /\ replace)
        kept == SelectSeq(participants_original, Keep)
        changed == [i \in DOMAIN kept |->
                       IF kept[i].metabolite # metabolite_original THEN kept[i]
                       ELSE [kept[i] EXCEPT !.metabolite = metabolite_novel]]
    IN IF replace THEN collect_unique_elements(changed) ELSE changed

\* Mutant: a participant to remove is kept as it is.
ChangeParticipants_stale(participants_original, metabolite_original, metabolite_novel, remove, replace) ==
    IF remove THEN participants_original
    ELSE [i \in DOMAIN participants_original |->
             IF participants_original[i].metabolite # metabolite_original
             THEN participants_original[i]
             ELSE [participants_original[i] EXCEPT !.metabolite = metabolite_novel]]

\* The participants_novel that change_reactions_participants_metabolite builds
\* for one reaction.
ChangeParticipants(participants_original, metabolite_original, metabolite_novel, remove, replace) ==
    LET Keep(party) == \/ party.metabolite # metabolite_original
                       \/ (~remove /\ replace)
        kept == SelectSeq(participants_original, Keep)
    IN [i \in DOMAIN kept |->
           IF kept[i].metabolite # metabolite_original THEN kept[i]
           ELSE [kept[i] EXCEPT !.metabolite = metabolite_novel]]

\* The loop of change_reactions_participants_metabolite from position index of
\* the dict's order on, reactions_novel being the dict built so far.
RECURSIVE ChangeReactionsFrom(_, _, _, _, _, _, _)
ChangeReactionsFrom(reactions_original, reactions_novel, metabolite_original, metabolite_novel, remove, replace, index) ==
    IF index > Len(ReactionOrder) THEN reactions_novel
    ELSE IF ReactionOrder[index] \notin DOMAIN reactions_original
    THEN ChangeReactionsFrom(reactions_original, reactions_novel, metabolite_original,
                             metabolite_novel, remove, replace, index + 1)
    ELSE LET reaction == reactions_original[ReactionOrder[index]]
             participants_novel == ChangeParticipants(
                 reaction.participants, metabolite_original, metabolite_novel,
                 remove, replace)
         IN ChangeReactionsFrom(
                reactions_original,
                Put(reactions_novel, reaction.identifier,
                    [reaction EXCEPT !.participants = participants_novel]),
                metabolite_original, metabolite_novel, remove, replace, index + 1)

\* Mutant: only the reactions whose participants changed are returned.
change_reactions_participants_metabolite_changed(reactions_original, metabolite_original, metabolite_novel, remove, replace) ==
    LET reactions_novel == ChangeReactionsFrom(
            reactions_original, Empty, metabolite_original, metabolite_novel,
            remove, replace, 1)
    IN [key \in {identifier \in DOMAIN reactions_novel :
                     \A other \in DOMAIN reactions_original :
                         reactions_original[other] # reactions_novel[identifier]} |->
           reactions_novel[key]]

\* change_reactions_participants_metabolite
change_reactions_participants_metabolite(reactions_original, metabolite_original, metabolite_novel, remove, replace) ==
    ChangeReactionsFrom(reactions_original, Empty, metabolite_original,
                        metabolite_novel, remove, replace, 1)

\* Mutant: the novel value is appended without collecting the unique values.
CurateReferences_append(references_original, novel, error) ==
    LET Match(reference) == reference # error
        added == IF Len(novel) > 0
                 THEN Append(references_original, novel)
                 ELSE references_original
    IN IF Len(error) > 0 THEN SelectSeq(added, Match) ELSE added

\* Mutant: the error value is removed before the novel value is appended.
CurateReferences_error(references_original, novel, error) ==
    LET Match(reference) == reference # error
        filtered == IF Len(error) > 0
                    THEN SelectSeq(references_original, Match)
                    ELSE references_original
    IN IF Len(novel) > 0
       THEN collect_unique_elements(Append(filtered, novel))
       ELSE filtered

\* Mutant: the novel value is put in front of the list.
CurateReferences_front(references_original, novel, error) ==
    LET Match(reference) == reference # error
        added == IF Len(novel) > 0
                 THEN collect_unique_elements(<<novel>> \o references_original)
                 ELSE references_original
    IN IF Len(error) > 0 THEN SelectSeq(added, Match) ELSE added

\* The list of one database after its novel and error values are applied.
CurateReferences(references_original, novel, error) ==
    LET Match(reference) == reference # error
        added == IF Len(novel) > 0
                 THEN collect_unique_elements(Append(references_original, novel))
                 ELSE references_original
    IN IF Len(error) > 0 THEN SelectSeq(added, Match) ELSE added

\* Mutant: the record is looked up under identifier_original.
curate_metabolites_references_original(metabolite_curation, metabolites_all) ==
    LET identifier == metabolite_curation.identifier_original
    IN IF identifier \in DOMAIN metabolites_all
       THEN [metabolites_all EXCEPT
                ![identifier].references.hmdb =
                    CurateReferences(@, metabolite_curation.hmdb_novel,
                                     metabolite_curation.hmdb_error),
                ![identifier].references.pubchem =
                    CurateReferences(@, metabolite_curation.pubchem_novel,
                                     metabolite_curation.pubchem_error)]
       ELSE metabolites_all

\* curate_metabolites_references
curate_metabolites_references(metabolite_curation, metabolites_all) ==
    LET identifier == metabolite_curation.identifier_novel
    IN IF identifier \in DOMAIN metabolites_all
       THEN [metabolites_all EXCEPT
                ![identifier].references.hmdb =
                    CurateReferences(@, metabolite_curation.hmdb_novel,
                                     metabolite_curation.hmdb_error),
                ![identifier].references.pubchem =
                    CurateReferences(@, metabolite_curation.pubchem_novel,
                                     metabolite_curation.pubchem_error)]
       ELSE metabolites_all

\* Mutant: a rename to an absent identifier leaves the original record in place.
ChangeMetaboliteIdentifier_keep(metabolites_novel, identifier_original, identifier_novel) ==
    IF identifier_original \in DOMAIN metabolites_novel
       /\ identifier_novel \notin DOMAIN metabolites_novel
    THEN Put(metabolites_novel, identifier_novel,
             [metabolites_novel[identifier_original] EXCEPT
                 !.identifier = identifier_novel])
    ELSE IF identifier_original \in DOMAIN metabolites_novel
            /\ identifier_novel \in DOMAIN metabolites_novel
    THEN Del(metabolites_novel, identifier_original)
    ELSE metabolites_novel

\* The metabolite collection after the identifier change of a directive.
ChangeMetaboliteIdentifier(metabolites_novel, identifier_original, identifier_novel) ==
    IF identifier_original \in DOMAIN metabolites_novel
       /\ identifier_novel \notin DOMAIN metabolites_novel
    THEN Put(Del(metabolites_novel, identifier_original), identifier_novel,
             [metabolites_novel[identifier_original] EXCEPT
                 !.identifier = identifier_novel])
    ELSE IF identifier_original \in DOMAIN metabolites_novel
            /\ identifier_novel \in DOMAIN metabolites_novel
    THEN Del(metabolites_novel, identifier_original)
    ELSE metabolites_novel

\* Mutant: the name is set only by a directive that changes the identifier.
MetabolitesIteration_unnamed(rec, metabolites_novel, reactions_novel) ==
    LET identifier_original == rec.identifier_original
        identifier_novel == rec.identifier_novel
    IN IF identifier_novel = "null"
       THEN IF identifier_original \in DOMAIN metabolites_novel
            THEN [entities |-> Del(metabolites_novel, identifier_original),
                  reactions |-> change_reactions_participants_metabolite(
                      reactions_novel, identifier_original, "null", TRUE, FALSE)]
            ELSE [entities |-> metabolites_novel, reactions |-> reactions_novel]
       ELSE LET changed == IF identifier_original # identifier_novel
                           THEN ChangeMetaboliteIdentifier(
                                    metabolites_novel, identifier_original,
                                    identifier_novel)
                           ELSE metabolites_novel
                replaced == IF identifier_original # identifier_novel
                            THEN change_reactions_participants_metabolite(
                                     reactions_novel, identifier_original,
                                     identifier_novel, FALSE, TRUE)
                            ELSE reactions_novel
                named == IF rec.name_original # rec.name_novel
                            /\ identifier_original # identifier_novel
                            /\ identifier_novel \in DOMAIN changed
                         THEN [changed EXCEPT ![identifier_novel].name = rec.name_novel]
                         ELSE changed
            IN [entities |-> curate_metabolites_references(rec, named),
                reactions |-> replaced]

\* One iteration of the loop of curate_metabolites over metabolites_curation.
MetabolitesIteration(rec, metabolites_novel, reactions_novel) ==
    LET identifier_original == rec.identifier_original
        identifier_novel == rec.identifier_novel
    IN IF identifier_novel = "null"
       THEN IF identifier_original \in DOMAIN metabolites_novel
            THEN [entities |-> Del(metabolites_novel, identifier_original),
                  reactions |-> change_reactions_participants_metabolite(
                      reactions_novel, identifier_original, "null", TRUE, FALSE)]
            ELSE [entities |-> metabolites_novel, reactions |-> reactions_novel]
       ELSE LET changed == IF identifier_original # identifier_novel
                           THEN ChangeMetaboliteIdentifier(
                                    metabolites_novel, identifier_original,
                                    identifier_novel)
                           ELSE metabolites_novel
                replaced == IF identifier_original # identifier_novel
                            THEN change_reactions_participants_metabolite(
                                     reactions_novel, identifier_original,
                                     identifier_novel, FALSE, TRUE)
                            ELSE reactions_novel
                named == IF rec.name_original # rec.name_novel
                            /\ identifier_novel \in DOMAIN changed
                         THEN [changed EXCEPT ![identifier_novel].name = rec.name_novel]
                         ELSE changed
            IN [entities |-> curate_metabolites_references(rec, named),
                reactions |-> replaced]

----------------------------------------------------------------------------
(* curate_reactions *)

\* Mutant: the replicates lists are returned as they are.
filter_reaction_replicates_none(reactions_original) ==
    reactions_original

\* Mutant: a reaction's own identifier is dropped from its replicates list too.
filter_reaction_replicates_others(reactions_original) ==
    LET Match(key, identifier) ==
            identifier \in DOMAIN reactions_original /\ identifier # key
    IN [key \in DOMAIN reactions_original |->
           [reactions_original[key] EXCEPT
               !.replicates = SelectSeq(@, LAMBDA identifier : Match(key, identifier))]]

\* filter_reaction_replicates
filter_reaction_replicates(reactions_original) ==
    LET Match(identifier) == identifier \in DOMAIN reactions_original
    IN [key \in DOMAIN reactions_original |->
           [reactions_original[key] EXCEPT !.replicates = SelectSeq(@, Match)]]

\* The collection given to filter_reaction_replicates, after the call.
FilterArgument(reactions_original) ==
    IF deepcopy(reactions_original).shared
    THEN filter_reaction_replicates(reactions_original)
    ELSE reactions_original

\* Mutant: a record whose names differ sets the name, whatever its
\* identifier_novel.
ReactionsIteration_named(rec, reactions_novel) ==
    LET identifier_original == rec.identifier_original
        match_names == rec.name_original = rec.name_novel
    IN IF ~match_names /\ identifier_original \in DOMAIN reactions_novel
       THEN [reactions_novel EXCEPT ![identifier_original].name = rec.name_novel]
       ELSE IF rec.identifier_novel = "null"
       THEN Del(reactions_novel, identifier_original)
       ELSE reactions_novel

\* Mutant: a name is set under identifier_original whether or not it is a key.
ReactionsIteration_create(rec, reactions_novel) ==
    LET identifier_original == rec.identifier_original
        match_names == rec.name_original = rec.name_novel
    IN IF rec.identifier_novel = "null"
       THEN Del(reactions_novel, identifier_original)
       ELSE IF ~match_names
       THEN Put(reactions_novel, identifier_original,
                [identifier |-> identifier_original, name |-> rec.name_novel,
                 participants |-> <<>>, processes |-> <<>>, replicates |-> <<>>])
       ELSE reactions_novel

\* The reactions_novel that one iteration of the loop of curate_reactions over
\* reactions_curation leaves.
ReactionsIteration(rec, reactions_novel) ==
    LET identifier_original == rec.identifier_original
        match_names == rec.name_original = rec.name_novel
    IN IF rec.identifier_novel = "null"
       THEN Del(reactions_novel, identifier_original)
       ELSE IF ~match_names /\ identifier_original \in DOMAIN reactions_novel
       THEN [reactions_novel EXCEPT ![identifier_original].name = rec.name_novel]
       ELSE reactions_novel

----------------------------------------------------------------------------
(* The collections and directives the specifications draw from. *)

\* Entity collections (compartments or processes) over some of the keys, each
\* record carrying its key as identifier.
EntityCollections(keys) ==
    {[k \in D |-> [identifier |-> k, name |-> "n1"]] : D \in SUBSET keys}

\* Reaction collections over some of the keys, each record carrying its key as
\* identifier and a participants, a processes and a replicates list of the sets.
ReactionCollections(keys, participants, processes_lists, replicates) ==
    {[k \in DOMAIN f |->
         [identifier |-> k, name |-> "n1", participants |-> f[k].participants,
          processes |-> f[k].processes, replicates |-> f[k].replicates]] :
     f \in UNION {[D -> [participants : participants, processes : processes_lists,
                         replicates : replicates]] : D \in SUBSET keys}}

\* Directive records of the compartments, processes and reactions tables.
Directives(keys) ==
    [identifier_original : keys, identifier_novel : keys \cup {"null"},
     name_original : {"n1"}, name_novel : Names]

\* Directive records of the metabolites table, with the reference values of
\* the sets (the empty string is an empty cell of the table).
MetaboliteDirectives(keys, hmdb, pubchem) ==
    [identifier_original : keys, identifier_novel : keys \cup {"null"},
     name_original : {"n1"}, name_novel : Names,
     hmdb_novel : hmdb, hmdb_error : hmdb,
     pubchem_novel : pubchem, pubchem_error : pubchem]

\* The collection of the stage's entity type in the collections read from file.
Entities(stage, src) ==
    CASE stage = "compartments" -> src.compartments
      [] stage = "processes" -> src.processes
      [] stage = "metabolites" -> src.metabolites
      [] stage = "reactions" -> Empty

\* The state at the start of a stage, given the collections read from file.
Start(src, stage) ==
    /\ source = src
    /\ compartments = deepcopy(src.compartments).value
    /\ processes = deepcopy(src.processes).value
    /\ metabolites = deepcopy(src.metabolites).value
    /\ reactions = deepcopy(src.reactions).value
    /\ arguments = Call(Entities(stage, src), deepcopy(Entities(stage, src)),
                        src.reactions, deepcopy(src.reactions))
    /\ reactions_replicates = <<>>
    /\ pc = stage
    /\ record = <<>>
    /\ before = [entities |-> Empty, reactions |-> src.reactions]
    /\ applied = 0
    /\ curation = <<>>
    /\ product = <<>>

----------------------------------------------------------------------------
(* Actions: one iteration of a stage's loop, and the stage's return. *)

\* curate_compartments, one record of compartments_curation
CompartmentsDirective(directives) ==
    /\ pc = "compartments"
    /\ applied < MaxDirectives
    /\ \E rec \in directives :
          LET out == CompartmentsIteration(rec, compartments, reactions)
          IN /\ compartments' = out.entities
             /\ reactions' = out.reactions
             /\ record' = <<rec>>
             /\ arguments' = Written(arguments, out.entities, out.reactions)
    /\ before' = [entities |-> compartments, reactions |-> reactions]
    /\ applied' = applied + 1
    /\ UNCHANGED <<source, processes, metabolites, reactions_replicates, pc,
                   curation, product>>

\* Mutant: curate_processes is called with the reactions read from file.
CompartmentsReturn_source ==
    /\ pc = "compartments"
    /\ pc' = "processes"
    /\ record' = <<>>
    /\ reactions' = source.reactions
    /\ before' = [entities |-> processes, reactions |-> source.reactions]
    /\ applied' = 0
    /\ arguments' = Call(processes, deepcopy(processes),
                         source.reactions, deepcopy(source.reactions))
    /\ UNCHANGED <<source, compartments, processes, metabolites,
                   reactions_replicates, curation, product>>

\* curate_compartments returns; execute_procedure calls curate_processes
CompartmentsReturn ==
    /\ pc = "compartments"
    /\ pc' = "processes"
    /\ record' = <<>>
    /\ before' = [entities |-> processes, reactions |-> reactions]
    /\ applied' = 0
    /\ arguments' = Call(processes, deepcopy(processes), reactions, deepcopy(reactions))
    /\ UNCHANGED <<source, compartments, processes, metabolites, reactions,
                   reactions_replicates, curation, product>>

\* curate_processes, one record of processes_curation
ProcessesDirective(directives) ==
    /\ pc = "processes"
    /\ applied < MaxDirectives
    /\ \E rec \in directives :
          LET out == ProcessesIteration(rec, processes, reactions)
          IN /\ processes' = out.entities
             /\ reactions' = out.reactions
             /\ record' = <<rec>>
             /\ arguments' = Written(arguments, out.entities, out.reactions)
    /\ before' = [entities |-> processes, reactions |-> reactions]
    /\ applied' = applied + 1
    /\ UNCHANGED <<source, compartments, metabolites, reactions_replicates, pc,
                   curation, product>>

\* curate_processes returns; execute_procedure calls curate_metabolites
ProcessesReturn ==
    /\ pc = "processes"
    /\ pc' = "metabolites"
    /\ record' = <<>>
    /\ before' = [entities |-> metabolites, reactions |-> reactions]
    /\ applied' = 0
    /\ arguments' = Call(metabolites, deepcopy(metabolites), reactions, deepcopy(reactions))
    /\ UNCHANGED <<source, compartments, processes, metabolites, reactions,
                   reactions_replicates, curation, product>>

\* curate_metabolites, one record of metabolites_curation
MetabolitesDirective(directives) ==
    /\ pc = "metabolites"
    /\ applied < MaxDirectives
    /\ \E rec \in directives :
          LET out == MetabolitesIteration(rec, metabolites, reactions)
          IN /\ metabolites' = out.entities
             /\ reactions' = out.reactions
             /\ record' = <<rec>>
             /\ arguments' = Written(arguments, out.entities, out.reactions)
    /\ before' = [entities |-> metabolites, reactions |-> reactions]
    /\ applied' = applied + 1
    /\ UNCHANGED <<source, compartments, processes, reactions_replicates, pc,
                   curation, product>>

\* curate_metabolites returns; execute_procedure calls curate_reactions
MetabolitesReturn ==
    /\ pc = "metabolites"
    /\ pc' = "reactions"
    /\ record' = <<>>
    /\ before' = [entities |-> reactions, reactions |-> reactions]
    /\ applied' = 0
    /\ arguments' = Call(Empty, deepcopy(Empty), reactions, deepcopy(reactions))
    /\ UNCHANGED <<source, compartments, processes, metabolites, reactions,
                   reactions_replicates, curation, product>>

\* curate_reactions, one record of reactions_curation
ReactionsDirective(directives) ==
    /\ pc = "reactions"
    /\ applied < MaxDirectives
    /\ \E rec \in directives :
          LET reactions_novel == ReactionsIteration(rec, reactions)
          IN /\ reactions' = FilterArgument(reactions_novel)
             /\ reactions_replicates' = <<filter_reaction_replicates(reactions_novel)>>
             /\ record' = <<rec>>
             /\ arguments' = Written(arguments, Empty, reactions')
    /\ before' = [entities |-> reactions, reactions |-> reactions]
    /\ applied' = applied + 1
    /\ UNCHANGED <<source, compartments, processes, metabolites, pc, curation,
                   product>>

\* curate_reactions returns reactions_replicates to execute_procedure
ReactionsReturn ==
    /\ pc = "reactions"
    /\ reactions_replicates # <<>>
    /\ pc' = "done"
    /\ reactions' = reactions_replicates[1]
    /\ UNCHANGED <<source, compartments, processes, metabolites,
                   reactions_replicates, record, before, applied, curation, product,
                   arguments>>

\* curate_reactions reaches its return with reactions_replicates unbound (the
\* loop over reactions_curation had no iteration): UnboundLocalError
ReactionsUnbound ==
    /\ pc = "reactions"
    /\ reactions_replicates = <<>>
    /\ pc' = "error"
    /\ UNCHANGED <<source, compartments, processes, metabolites, reactions,
                   reactions_replicates, record, before, applied, curation, product,
                   arguments>>

----------------------------------------------------------------------------
(* curate_compartments alone, on collections whose reactions have up to    *)
(* MaxParticipants participants in the compartments c and e.               *)

SourcesCompartments ==
    {[compartments |-> cs, processes |-> Empty, metabolites |-> Empty,
      reactions |-> rs] :
     cs \in EntityCollections(CompartmentIds),
     rs \in ReactionCollections(
                ReactionIds,
                SeqUpTo([metabolite : {"M1"}, compartment : CompartmentIds,
                         role : {"reactant"}], MaxParticipants),
                {<<>>}, {<<>>})}

InitCompartments == \E src \in SourcesCompartments : Start(src, "compartments")

NextCompartments ==
    \/ CompartmentsDirective(Directives(CompartmentIds))
    \/ CompartmentsReturn

SpecCompartments == InitCompartments /\ [][NextCompartments]_vars

\* C1: every compartment that a delete directive removed has no participant
\* left in any reaction of the reaction collection, and every reaction that had
\* a participant in it is absent from the reaction collection, up to and at the
\* return of curate_compartments.
C1_DeleteCascade ==
    \A C \in DOMAIN source.compartments \ DOMAIN compartments :
        /\ \A key \in DOMAIN reactions :
               \A i \in DOMAIN reactions[key].participants :
                   reactions[key].participants[i].compartment # C
        /\ \A key \in DOMAIN source.reactions :
               (\E i \in DOMAIN source.reactions[key].participants :
                    source.reactions[key].participants[i].compartment = C)
               => key \notin DOMAIN reactions

\* A delete of compartment e has removed R1, whose second participant was in e,
\* and curate_compartments has returned.
C1_Witness ==
    /\ pc = "processes"
    /\ "e" \in DOMAIN source.compartments
    /\ DOMAIN compartments = {"c"}
    /\ "R1" \in DOMAIN source.reactions
    /\ Len(source.reactions["R1"].participants) = 2
    /\ source.reactions["R1"].participants[1].compartment = "c"
    /\ source.reactions["R1"].participants[2].compartment = "e"
    /\ "R1" \notin DOMAIN reactions

----------------------------------------------------------------------------
(* curate_metabolites alone, its directives carrying no reference values.  *)
(* M1 and M2 differ in name and references; R1 has up to MaxParticipants   *)
(* participants, R2 at most one.                                           *)

MetaboliteM1 ==
    [identifier |-> "M1", name |-> "n1",
     references |-> [hmdb |-> <<"h1">>, pubchem |-> <<>>]]

MetaboliteM2 ==
    [identifier |-> "M2", name |-> "n2",
     references |-> [hmdb |-> <<"h2">>, pubchem |-> <<>>]]

MetaboliteCollections ==
    {[k \in D |-> IF k = "M1" THEN MetaboliteM1 ELSE MetaboliteM2] :
     D \in SUBSET MetaboliteIds}

ParticipantsMetabolites ==
    {[metabolite |-> "M1", compartment |-> "c", role |-> "reactant"],
     [metabolite |-> "M1", compartment |-> "c", role |-> "product"],
     [metabolite |-> "M2", compartment |-> "c", role |-> "reactant"]}

SourcesMetabolites ==
    {[compartments |-> Empty, processes |-> Empty, metabolites |-> ms,
      reactions |-> rs] :
     ms \in MetaboliteCollections,
     rs \in {r1 @@ r2 :
             r1 \in ReactionCollections(
                        {"R1"}, SeqUpTo(ParticipantsMetabolites, MaxParticipants),
                        {<<>>}, {<<>>}),
             r2 \in ReactionCollections(
                        {"R2"}, SeqUpTo(ParticipantsMetabolites, 1),
                        {<<>>}, {<<>>})}}

InitMetabolites == \E src \in SourcesMetabolites : Start(src, "metabolites")

NextMetabolites ==
    \/ MetabolitesDirective(MetaboliteDirectives(MetaboliteIds, {""}, {""}))
    \/ MetabolitesReturn

SpecMetabolites == InitMetabolites /\ [][NextMetabolites]_vars

\* The last iteration of curate_metabolites applied a rename A -> B.
RenamedMetabolite(A, B) ==
    /\ pc = "metabolites"
    /\ record # <<>>
    /\ record[1].identifier_original = A
    /\ record[1].identifier_novel = B
    /\ A # B

\* In every reaction, the participants that referenced A before the last
\* iteration reference B now, at the same place and otherwise unchanged.
ParticipantsFollow(A, B) ==
    \A key \in DOMAIN before.reactions :
        /\ key \in DOMAIN reactions
        /\ Len(reactions[key].participants) = Len(before.reactions[key].participants)
        /\ \A i \in DOMAIN before.reactions[key].participants :
               before.reactions[key].participants[i].metabolite = A
               => reactions[key].participants[i]
                  = [before.reactions[key].participants[i] EXCEPT !.metabolite = B]

\* C2: after a rename directive A -> B with A in the metabolite collection and
\* B not in it, every participant that referenced A references B with its
\* other fields unchanged, and the record that was under A is under B (with
\* B as identifier and the directive's name if it changes the name), while A
\* is no key any more.
C2_RenamePreservation ==
    \A A \in MetaboliteIds, B \in MetaboliteIds :
        (/\ RenamedMetabolite(A, B)
         /\ A \in DOMAIN before.entities
         /\ B \notin DOMAIN before.entities)
        => /\ ParticipantsFollow(A, B)
           /\ A \notin DOMAIN metabolites
           /\ B \in DOMAIN metabolites
           /\ metabolites[B].identifier = B
           /\ metabolites[B].references = before.entities[A].references
           /\ metabolites[B].name =
                  IF record[1].name_original # record[1].name_novel
                  THEN record[1].name_novel ELSE before.entities[A].name

\* M1 was renamed to the absent M2 while R1 had M1 as a product and M2's name
\* left as it was.
C2_Witness ==
    /\ RenamedMetabolite("M1", "M2")
    /\ DOMAIN before.entities = {"M1"}
    /\ record[1].name_novel = "n1"
    /\ "R1" \in DOMAIN before.reactions
    /\ Len(before.reactions["R1"].participants) = 2
    /\ before.reactions["R1"].participants[2].metabolite = "M1"
    /\ before.reactions["R1"].participants[2].role = "product"
    /\ reactions["R1"].participants[2].metabolite = "M2"

\* C3: after a rename directive A -> B with both A and B keys of the
\* metabolite collection, A is no key any more, B still is, and every
\* participant that referenced A references B.
C3_Merge ==
    \A A \in MetaboliteIds, B \in MetaboliteIds :
        (/\ RenamedMetabolite(A, B)
         /\ A \in DOMAIN before.entities
         /\ B \in DOMAIN before.entities)
        => /\ A \notin DOMAIN metabolites
           /\ B \in DOMAIN metabolites
           /\ ParticipantsFollow(A, B)

\* Metabolites {M1, M2}, R1 with a participant M1: M1 was renamed to M2.
C3_Witness ==
    /\ RenamedMetabolite("M1", "M2")
    /\ DOMAIN before.entities = {"M1", "M2"}
    /\ "R1" \in DOMAIN before.reactions
    /\ Len(before.reactions["R1"].participants) = 1
    /\ before.reactions["R1"].participants[1].metabolite = "M1"
    /\ DOMAIN metabolites = {"M2"}
    /\ reactions["R1"].participants[1].metabolite = "M2"

\* The values of a list.
Values(list) == {list[i] : i \in DOMAIN list}

\* C4: after a merge directive A -> B with B already a key, each reference list
\* of B holds every value that was in that list of A or of B before the
\* merge, without duplicates.
C4_MergeReferences ==
    \A A \in MetaboliteIds, B \in MetaboliteIds :
        (/\ RenamedMetabolite(A, B)
         /\ A \in DOMAIN before.entities
         /\ B \in DOMAIN before.entities)
        => /\ B \in DOMAIN metabolites
           /\ Values(before.entities[A].references.hmdb)
                  \cup Values(before.entities[B].references.hmdb)
              \subseteq Values(metabolites[B].references.hmdb)
           /\ Values(before.entities[A].references.pubchem)
                  \cup Values(before.entities[B].references.pubchem)
              \subseteq Values(metabolites[B].references.pubchem)
           /\ Unique(metabolites[B].references.hmdb)
           /\ Unique(metabolites[B].references.pubchem)

\* Every participant.metabolite of every reaction is a key of the metabolites.
MetabolitesConsistent(metabolites_all, reactions_all) ==
    \A key \in DOMAIN reactions_all :
        \A i \in DOMAIN reactions_all[key].participants :
            reactions_all[key].participants[i].metabolite \in DOMAIN metabolites_all

\* C8: if every participant.metabolite was a key of the metabolite collection
\* before curate_metabolites, it is one after every directive and at the return.
C8_MetabolitesConsistent ==
    MetabolitesConsistent(source.metabolites, source.reactions)
    => MetabolitesConsistent(metabolites, reactions)

\* From consistent collections, curate_metabolites has deleted M1, which two
\* participants of R1 referenced, then renamed M2, and returned.
C8_Witness ==
    /\ pc = "reactions"
    /\ MetabolitesConsistent(source.metabolites, source.reactions)
    /\ DOMAIN source.metabolites = {"M1", "M2"}
    /\ "R1" \in DOMAIN source.reactions
    /\ Len(source.reactions["R1"].participants) = 2
    /\ source.reactions["R1"].participants[1].metabolite = "M1"
    /\ source.reactions["R1"].participants[2].metabolite = "M1"
    /\ "R2" \in DOMAIN source.reactions
    /\ Len(source.reactions["R2"].participants) = 1
    /\ source.reactions["R2"].participants[1].metabolite = "M2"
    /\ DOMAIN metabolites = {"M1"}
    /\ reactions["R1"].participants = <<>>
    /\ reactions["R2"].participants[1].metabolite = "M1"

----------------------------------------------------------------------------
(* curate_processes alone.  R1 lists up to MaxProcesses processes, R2 at   *)
(* most one; a list may name a process that is no key.                     *)

SourcesProcesses ==
    {[compartments |-> Empty, processes |-> ps, metabolites |-> Empty,
      reactions |-> rs] :
     ps \in EntityCollections(ProcessIds),
     rs \in {r1 @@ r2 :
             r1 \in ReactionCollections(
                        {"R1"}, {<<>>}, SeqUpTo(ProcessIds, MaxProcesses), {<<>>}),
             r2 \in ReactionCollections(
                        {"R2"}, {<<>>}, SeqUpTo(ProcessIds, 1), {<<>>})}}

InitProcesses == \E src \in SourcesProcesses : Start(src, "processes")

NextProcesses ==
    \/ ProcessesDirective(Directives(ProcessIds))
    \/ ProcessesReturn

SpecProcesses == InitProcesses /\ [][NextProcesses]_vars

\* The number of occurrences of a value in a list.
Count(value, list) == Cardinality({i \in DOMAIN list : list[i] = value})

\* C7: after a rename directive P1 -> P2 with P2 a key of the process
\* collection, P1 is no key, and every reaction whose processes list contained
\* P1 lists P2 exactly once and P1 not at all.
C7_ProcessMerge ==
    \A P1 \in ProcessIds, P2 \in ProcessIds :
        (/\ pc = "processes"
         /\ record # <<>>
         /\ record[1].identifier_original = P1
         /\ record[1].identifier_novel = P2
         /\ P1 # P2
         /\ P2 \in DOMAIN before.entities)
        => /\ P1 \notin DOMAIN processes
           /\ P2 \in DOMAIN processes
           /\ \A key \in DOMAIN before.reactions :
                  In(P1, before.reactions[key].processes)
                  => /\ key \in DOMAIN reactions
                     /\ Count(P2, reactions[key].processes) = 1
                     /\ ~In(P1, reactions[key].processes)

\* Processes {P1, P2}, R1.processes = [P1, P2]: P1 was renamed to P2.
C7_Witness ==
    /\ pc = "processes"
    /\ record # <<>>
    /\ record[1].identifier_original = "P1"
    /\ record[1].identifier_novel = "P2"
    /\ DOMAIN before.entities = {"P1", "P2"}
    /\ "R1" \in DOMAIN before.reactions
    /\ before.reactions["R1"].processes = <<"P1", "P2">>
    /\ DOMAIN processes = {"P2"}
    /\ reactions["R1"].processes = <<"P2">>

\* Every element of every reaction's processes list is a key of the processes.
ProcessesConsistent(processes_all, reactions_all) ==
    \A key \in DOMAIN reactions_all :
        \A i \in DOMAIN reactions_all[key].processes :
            reactions_all[key].processes[i] \in DOMAIN processes_all

----------------------------------------------------------------------------
(* curate_reactions alone.  R1 lists up to MaxReplicates replicates, R2 at *)
(* most one; a list may name itself or a reaction that is no key.          *)

SourcesReactions ==
    {[compartments |-> Empty, processes |-> Empty, metabolites |-> Empty,
      reactions |-> r1 @@ r2] :
     r1 \in ReactionCollections(
                {"R1"}, {<<>>}, {<<>>}, SeqUpTo(ReactionIds, MaxReplicates)),
     r2 \in ReactionCollections(
                {"R2"}, {<<>>}, {<<>>}, SeqUpTo(ReactionIds, 1))}

InitReactions == \E src \in SourcesReactions : Start(src, "reactions")

NextReactions ==
    \/ ReactionsDirective(Directives(ReactionIds))
    \/ ReactionsReturn
    \/ ReactionsUnbound

SpecReactions == InitReactions /\ [][NextReactions]_vars

\* Every element of every reaction's replicates list is a key of the reactions.
ReplicatesClosed(reactions_all) ==
    \A key \in DOMAIN reactions_all :
        \A i \in DOMAIN reactions_all[key].replicates :
            reactions_all[key].replicates[i] \in DOMAIN reactions_all

\* C5: in the reaction collection that curate_reactions returns, every
\* identifier of every replicates list is a key of that collection.
C5_ReplicateClosure ==
    pc = "done" => ReplicatesClosed(reactions)

\* R1 listed R2 and itself, R2 was deleted, and curate_reactions returned R1
\* listing itself alone.
C5_Witness ==
    /\ pc = "done"
    /\ DOMAIN source.reactions = {"R1", "R2"}
    /\ source.reactions["R1"].replicates = <<"R2", "R1">>
    /\ DOMAIN reactions = {"R1"}
    /\ reactions["R1"].replicates = <<"R1">>

----------------------------------------------------------------------------
(* execute_procedure: the four stages in turn, each with up to             *)
(* MaxStageDirectives directives, the reaction collection of one stage     *)
(* being the input of the next.                                            *)

Directive(identifier_original, identifier_novel, name_novel) ==
    [identifier_original |-> identifier_original,
     identifier_novel |-> identifier_novel,
     name_original |-> "n1", name_novel |-> name_novel]

MetaboliteDirective(identifier_original, identifier_novel, name_novel) ==
    [identifier_original |-> identifier_original,
     identifier_novel |-> identifier_novel,
     name_original |-> "n1", name_novel |-> name_novel,
     hmdb_novel |-> "", hmdb_error |-> "", pubchem_novel |-> "", pubchem_error |-> ""]

CompartmentsCuration ==
    {Directive("e", "null", "n1"), Directive("c", "null", "n1"),
     Directive("c", "e", "n2")}

ProcessesCuration ==
    {Directive("P1", "null", "n1"), Directive("P1", "P2", "n1"),
     Directive("P2", "P1", "n2")}

MetabolitesCuration ==
    {MetaboliteDirective("M1", "null", "n1"), MetaboliteDirective("M1", "M2", "n1"),
     MetaboliteDirective("M2", "M1", "n2")}

ReactionsCuration ==
    {Directive("R1", "null", "n1"), Directive("R2", "null", "n1"),
     Directive("R1", "R1", "n2")}

ParticipantsProcedure ==
    {[metabolite |-> "M1", compartment |-> "c", role |-> "reactant"],
     [metabolite |-> "M2", compartment |-> "e", role |-> "product"]}

SourcesProcedure ==
    {[compartments |-> cs, processes |-> ps, metabolites |-> ms,
      reactions |-> r1 @@ r2] :
     cs \in EntityCollections(CompartmentIds),
     ps \in {qs \in EntityCollections(ProcessIds) : DOMAIN qs = ProcessIds},
     ms \in {ns \in MetaboliteCollections : DOMAIN ns = MetaboliteIds},
     r1 \in ReactionCollections(
                {"R1"}, SeqUpTo(ParticipantsProcedure, MaxParticipants),
                {<<"P1", "P2">>}, {<<"R2">>}),
     r2 \in {rs \in ReactionCollections(
                        {"R2"}, SeqUpTo(ParticipantsProcedure, 1),
                        {<<"P1">>}, {<<"R1">>}) :
                 \A key \in DOMAIN rs : Len(rs[key].participants) = 1}}

\* The stage's loop has taken fewer than MaxStageDirectives iterations.
Within == applied < MaxStageDirectives

Init == \E src \in SourcesProcedure : Start(src, "compartments")

Next ==
    \/ Within /\ CompartmentsDirective(CompartmentsCuration)
    \/ CompartmentsReturn
    \/ Within /\ ProcessesDirective(ProcessesCuration)
    \/ ProcessesReturn
    \/ Within /\ MetabolitesDirective(MetabolitesCuration)
    \/ MetabolitesReturn
    \/ Within /\ ReactionsDirective(ReactionsCuration)
    \/ ReactionsReturn
    \/ ReactionsUnbound

Spec == Init /\ [][Next]_vars

\* Every participant.compartment of every reaction is a key of the compartments.
CompartmentsConsistent(compartments_all, reactions_all) ==
    \A key \in DOMAIN reactions_all :
        \A i \in DOMAIN reactions_all[key].participants :
            reactions_all[key].participants[i].compartment \in DOMAIN compartments_all

\* C9: if every participant.compartment was a key of the compartment
\* collection before the procedure, it is one in the final collections.
C9_CompartmentsConsistent ==
    (pc = "done" /\ CompartmentsConsistent(source.compartments, source.reactions))
    => CompartmentsConsistent(compartments, reactions)

\* From consistent collections with R1 in c and e and R2 in c, compartment e
\* was deleted, and the procedure ended with R2 alone.
C9_Witness ==
    /\ pc = "done"
    /\ CompartmentsConsistent(source.compartments, source.reactions)
    /\ DOMAIN source.compartments = {"c", "e"}
    /\ DOMAIN source.reactions = {"R1", "R2"}
    /\ Len(source.reactions["R1"].participants) = 2
    /\ source.reactions["R1"].participants[1].compartment = "c"
    /\ source.reactions["R1"].participants[2].compartment = "e"
    /\ DOMAIN compartments = {"c"}
    /\ DOMAIN reactions = {"R2"}
    /\ Len(reactions["R2"].participants) = 1

----------------------------------------------------------------------------
(* The stages as functions of a whole directive list.                      *)

\* Mutant: every record is applied to the collections the stage was called
\* with, so that the stage returns what its last record alone gives.
Iterate_apart(stage, list, entities, reactions_novel, index) ==
    IF index > Len(list) THEN [entities |-> entities, reactions |-> reactions_novel]
    ELSE CASE stage = "compartments" ->
                  CompartmentsIteration(list[Len(list)], entities, reactions_novel)
           [] stage = "processes" ->
                  ProcessesIteration(list[Len(list)], entities, reactions_novel)
           [] stage = "metabolites" ->
                  MetabolitesIteration(list[Len(list)], entities, reactions_novel)
           [] stage = "reactions" ->
                  [entities |-> entities,
                   reactions |-> ReactionsIteration(list[Len(list)], reactions_novel)]

\* The loop of a stage over its directive list from position index on.
RECURSIVE Iterate(_, _, _, _, _)
Iterate(stage, list, entities, reactions_novel, index) ==
    IF index > Len(list) THEN [entities |-> entities, reactions |-> reactions_novel]
    ELSE LET out == CASE stage = "compartments" ->
                             CompartmentsIteration(list[index], entities, reactions_novel)
                      [] stage = "processes" ->
                             ProcessesIteration(list[index], entities, reactions_novel)
                      [] stage = "metabolites" ->
                             MetabolitesIteration(list[index], entities, reactions_novel)
                      [] stage = "reactions" ->
                             [entities |-> entities,
                              reactions |-> ReactionsIteration(list[index], reactions_novel)]
         IN Iterate(stage, list, out.entities, out.reactions, index + 1)

\* curate_compartments
curate_compartments(compartments_curation, compartments_original, reactions_original) ==
    Iterate("compartments", compartments_curation, compartments_original, reactions_original, 1)

\* curate_processes
curate_processes(processes_curation, processes_original, reactions_original) ==
    Iterate("processes", processes_curation, processes_original, reactions_original, 1)

\* curate_metabolites
curate_metabolites(metabolites_curation, metabolites_original, reactions_original) ==
    Iterate("metabolites", metabolites_curation, metabolites_original, reactions_original, 1)

\* curate_reactions: <<the collection returned>>, or <<>> when the return finds
\* reactions_replicates unbound
curate_reactions(reactions_curation, reactions_original) ==
    IF reactions_curation = <<>> THEN <<>>
    ELSE <<filter_reaction_replicates(
               Iterate("reactions", reactions_curation, Empty, reactions_original, 1)
                   .reactions)>>

\* A stage called on a directive list and the collections of its entity type:
\* what it returns, or that it raised.
Curate(stage, list, entities, reactions_original) ==
    LET out == CASE stage = "compartments" ->
                        curate_compartments(list, entities, reactions_original)
                 [] stage = "processes" ->
                        curate_processes(list, entities, reactions_original)
                 [] stage = "metabolites" ->
                        curate_metabolites(list, entities, reactions_original)
                 [] stage = "reactions" ->
                        LET returned == curate_reactions(list, reactions_original)
                        IN IF returned = <<>>
                           THEN [entities |-> Empty, reactions |-> Empty]
                           ELSE [entities |-> Empty, reactions |-> returned[1]]
    IN [status |-> IF stage = "reactions" /\ list = <<>> THEN "raised" ELSE "returned",
        entities |-> out.entities, reactions |-> out.reactions]

----------------------------------------------------------------------------
(* One stage run on a directive list of up to MaxRepeatDirectives records, *)
(* then run again with the same list on what the first run returned.       *)

RepeatedCuration(stage) ==
    CASE stage = "compartments" ->
             {Directive(o, n, "n2") : o \in CompartmentIds, n \in CompartmentIds \cup {"null"}}
      [] stage = "processes" ->
             {Directive(o, n, "n2") : o \in ProcessIds, n \in ProcessIds \cup {"null"}}
      [] stage = "reactions" ->
             {Directive(o, n, "n2") : o \in ReactionIds, n \in ReactionIds \cup {"null"}}
      [] stage = "metabolites" ->
             {MetaboliteDirective(o, n, "n1") :
                  o \in MetaboliteIds, n \in MetaboliteIds \cup {"null"}}
             \cup {MetaboliteDirective("M1", "M2", "n2"),
                   [MetaboliteDirective("M2", "M2", "n1") EXCEPT !.hmdb_novel = "h1"],
                   [MetaboliteDirective("M2", "M2", "n1") EXCEPT !.hmdb_error = "h1"],
                   [MetaboliteDirective("M1", "M2", "n1") EXCEPT
                        !.hmdb_novel = "h2", !.hmdb_error = "h1"]}

SourcesRepeat ==
    {[compartments |-> cs, processes |-> ps, metabolites |-> ms,
      reactions |-> r1 @@ r2] :
     cs \in {qs \in EntityCollections(CompartmentIds) : "c" \in DOMAIN qs},
     ps \in {qs \in EntityCollections(ProcessIds) : "P1" \in DOMAIN qs},
     ms \in {ns \in MetaboliteCollections : "M1" \in DOMAIN ns},
     r1 \in {rs \in ReactionCollections(
                        {"R1"}, SeqUpTo(ParticipantsProcedure, MaxParticipants),
                        {<<"P1", "P2">>}, {<<"R2">>}) : DOMAIN rs = {"R1"}},
     r2 \in ReactionCollections({"R2"}, {<<>>}, {<<"P2">>}, {<<"R1", "R2">>})}

InitRepeat ==
    \E src \in SourcesRepeat :
        \E stage \in {"compartments", "processes", "metabolites", "reactions"} :
            Start(src, stage)

\* one more record in the directive table
RepeatDirective ==
    /\ product = <<>>
    /\ Len(curation) < MaxRepeatDirectives
    /\ \E rec \in RepeatedCuration(pc) : curation' = Append(curation, rec)
    /\ UNCHANGED <<source, compartments, processes, metabolites, reactions,
                   reactions_replicates, pc, record, before, applied, product,
                   arguments>>

\* the stage is called on the table and the collections read from file
RepeatFirst ==
    /\ product = <<>>
    /\ product' = <<Curate(pc, curation, Entities(pc, source), source.reactions)>>
    /\ reactions' = product'[1].reactions
    /\ UNCHANGED <<source, compartments, processes, metabolites,
                   reactions_replicates, pc, record, before, applied, curation,
                   arguments>>

\* the stage is called on the table and what its first call returned
RepeatSecond ==
    /\ Len(product) = 1
    /\ product[1].status = "returned"
    /\ product' = Append(product, Curate(pc, curation, product[1].entities,
                                         product[1].reactions))
    /\ reactions' = product'[2].reactions
    /\ UNCHANGED <<source, compartments, processes, metabolites,
                   reactions_replicates, pc, record, before, applied, curation,
                   arguments>>

NextRepeat == RepeatDirective \/ RepeatFirst \/ RepeatSecond

SpecRepeat == InitRepeat /\ [][NextRepeat]_vars

Named(rec) == {rec.identifier_original, rec.identifier_novel} \ {"null"}

\* No identifier is named by two directives of the list.
Apart(list) ==
    \A i, j \in DOMAIN list : i # j => Named(list[i]) \cap Named(list[j]) = {}

----------------------------------------------------------------------------
(* Directives whose identifier_original is no key of the collection.       *)

\* The working entity collection of the stage in progress.
WorkingEntities ==
    CASE pc = "compartments" -> compartments
      [] pc = "processes" -> processes
      [] pc = "metabolites" -> metabolites
      [] OTHER -> reactions

\* The last iteration of the stage in progress applied a directive whose
\* identifier_original was no key of the stage's entity collection.
AbsentOriginal ==
    /\ pc \in {"compartments", "processes", "metabolites", "reactions"}
    /\ record # <<>>
    /\ record[1].identifier_original \notin DOMAIN before.entities

\* C11: a directive whose identifier_original is no key of the current entity
\* collection leaves the entity collection and the reaction collection as they
\* were before it.
C11_AbsentOriginalNoOp ==
    AbsentOriginal
    => /\ WorkingEntities = before.entities
       /\ reactions = before.reactions

----------------------------------------------------------------------------
(* The ways curate_reactions ends.                                         *)

\* C12: curate_reactions never ends in an error state, and the collection it
\* returns is the replicate filter's result for the working collection of
\* its last iteration.
C12_NeverRaises ==
    /\ pc # "error"
    /\ pc = "done"
       => /\ record # <<>>
          /\ reactions = filter_reaction_replicates(
                             ReactionsIteration(record[1], before.reactions))

----------------------------------------------------------------------------
(* What a stage does to the collections it was given.                      *)

----------------------------------------------------------------------------
(* Renames to an identifier that is no key.                                *)

\* The last iteration of the stage applied a directive X -> Y, Y not "null",
\* with X a key of the stage's entity collection and Y none.
PureRename(stage, X, Y) ==
    /\ pc = stage
    /\ record # <<>>
    /\ record[1].identifier_original = X
    /\ record[1].identifier_novel = Y
    /\ X # Y
    /\ Y # "null"
    /\ X \in DOMAIN before.entities
    /\ Y \notin DOMAIN before.entities

\* C14: after a rename directive X -> Y of curate_processes with X a key of
\* the process collection and Y none, Y is a key, X is none, and every reaction
\* whose processes list contained X lists Y and not X.
C14_ProcessRename ==
    \A X \in ProcessIds, Y \in ProcessIds :
        PureRename("processes", X, Y)
        => /\ Y \in DOMAIN processes
           /\ X \notin DOMAIN processes
           /\ \A key \in DOMAIN before.reactions :
                  In(X, before.reactions[key].processes)
                  => /\ key \in DOMAIN reactions
                     /\ In(Y, reactions[key].processes)
                     /\ ~In(X, reactions[key].processes)

\* C15: after a rename directive X -> Y of curate_compartments or of
\* curate_reactions with X a key of the stage's collection and Y none, X is
\* no key any more and Y is the key of the record that was under X.
C15_KeyRename ==
    \A stage \in {"compartments", "reactions"} :
        \A X \in CompartmentIds \cup ReactionIds, Y \in CompartmentIds \cup ReactionIds :
            PureRename(stage, X, Y)
            => /\ X \notin DOMAIN WorkingEntities
               /\ Y \in DOMAIN WorkingEntities

----------------------------------------------------------------------------
(* curate_metabolites on directives that carry reference values.  M1 has   *)
(* up to MaxReferences hmdb references and at most one pubchem reference,  *)
(* in any order and, as every list the curation leaves, without            *)
(* duplicates; M2 is as above.                                             *)

ReferenceCollections ==
    {[k \in D |->
         IF k = "M1"
         THEN [MetaboliteM1 EXCEPT !.references = [hmdb |-> hs, pubchem |-> ps]]
         ELSE MetaboliteM2] :
     D \in {{"M1"}, {"M1", "M2"}},
     hs \in {list \in SeqUpTo({"h1", "h2", "h4"}, MaxReferences) : Unique(list)},
     ps \in SeqUpTo({"p1", "p2"}, 1)}

SourcesReferences ==
    {[compartments |-> Empty, processes |-> Empty, metabolites |-> ms,
      reactions |-> Empty] : ms \in ReferenceCollections}

ReferencesCuration ==
    {[MetaboliteDirective(i[1], i[2], "n1") EXCEPT
         !.hmdb_novel = hn, !.hmdb_error = he,
         !.pubchem_novel = pn, !.pubchem_error = pe] :
     i \in {<<"M1", "M1">>, <<"M1", "M2">>, <<"M2", "M1">>, <<"M2", "M2">>},
     hn \in {"", "h1", "h3"}, he \in {"", "h1", "h3"},
     pn \in {"", "p1"}, pe \in {"", "p1"}}

InitReferences == \E src \in SourcesReferences : Start(src, "metabolites")

NextReferences ==
    \/ Within /\ MetabolitesDirective(ReferencesCuration)
    \/ MetabolitesReturn

SpecReferences == InitReferences /\ [][NextReferences]_vars

\* The last iteration of curate_metabolites curated the references of the
\* record under M, the identifier_novel of its directive.
ReferencesCurated(M) ==
    /\ pc = "metabolites"
    /\ record # <<>>
    /\ record[1].identifier_novel = M
    /\ M \in DOMAIN metabolites

\* The references of that record when curate_metabolites_references was
\* called: those of the record moved to M by a pure rename, else those under M.
ReferencesGiven(M) ==
    IF M \in DOMAIN before.entities
    THEN before.entities[M].references
    ELSE before.entities[record[1].identifier_original].references

\* The elements of list that are values of other, in the order of list.
Among(list, other) ==
    LET Member(element) == element \in Values(other)
    IN SelectSeq(list, Member)

\* One database's list after the directive, given the list before it: no
\* duplicates, the elements kept in the order they had, the novel value at
\* most once, and at the end if it is new to the list and not the error value.
ReferencesOrdered(given, curated, novel, error) ==
    /\ Unique(curated)
    /\ Among(curated, given) = Among(given, curated)
    /\ novel # "" => Count(novel, curated) <= 1
    /\ (novel # "" /\ novel # error /\ ~In(novel, given))
       => /\ curated # <<>>
          /\ curated[Len(curated)] = novel

----------------------------------------------------------------------------
(* The keys of what a stage returns.                                       *)

\* The stage's entity collection when directive number index of the list
\* given to the first run is applied.
EntitiesAt(index) ==
    Iterate(pc, SubSeq(curation, 1, index - 1), Entities(pc, source),
            source.reactions, 1).entities

\* Identifier is the identifier_novel of a rename directive of the list whose
\* identifier_original was a key when the directive was applied.
RenamedTo(identifier) ==
    \E index \in DOMAIN curation :
        /\ curation[index].identifier_novel = identifier
        /\ curation[index].identifier_original # identifier
        /\ curation[index].identifier_original \in DOMAIN EntitiesAt(index)

\* C17: a stage run on a directive list returns no more entities and no more
\* reactions than it was given, every key of the reactions returned was a key of
\* the reactions given, and every key of the entities returned was a key of the
\* entities given or is the identifier_novel of a rename directive whose
\* identifier_original was a key.
C17_NoCreation ==
    (Len(product) >= 1 /\ product[1].status = "returned")
    => /\ Cardinality(DOMAIN product[1].entities)
              <= Cardinality(DOMAIN Entities(pc, source))
       /\ Cardinality(DOMAIN product[1].reactions)
              <= Cardinality(DOMAIN source.reactions)
       /\ DOMAIN product[1].reactions \subseteq DOMAIN source.reactions
       /\ \A identifier \in DOMAIN product[1].entities :
              \/ identifier \in DOMAIN Entities(pc, source)
              \/ RenamedTo(identifier)

\* Metabolites {M1}: the list [rename M1 -> M2] returned {M2}, one
\* metabolite as before, and both reactions under their keys.
C17_Witness ==
    /\ pc = "metabolites"
    /\ Len(product) >= 1
    /\ Len(curation) = 1
    /\ curation[1].identifier_original = "M1"
    /\ curation[1].identifier_novel = "M2"
    /\ DOMAIN source.metabolites = {"M1"}
    /\ DOMAIN product[1].entities = {"M2"}
    /\ RenamedTo("M2")
    /\ DOMAIN source.reactions = {"R1", "R2"}
    /\ DOMAIN product[1].reactions = {"R1", "R2"}

----------------------------------------------------------------------------
(* Delete directives of curate_processes and of curate_metabolites.        *)

\* The last iteration of the stage applied a delete directive for X.
Deleted(stage, X) ==
    /\ pc = stage
    /\ record # <<>>
    /\ record[1].identifier_original = X
    /\ record[1].identifier_novel = "null"

\* C18: a delete directive of curate_processes for process X removes the
\* entity under X and nothing else: the other processes and the whole reaction
\* collection, the processes lists that name X included, are as before it.
C18_ProcessDeleteAlone ==
    \A X \in ProcessIds :
        Deleted("processes", X)
        => /\ processes = Del(before.entities, X)
           /\ reactions = before.reactions

\* Processes {P1, P2}, R1.processes = [P1, P2]: P1 was deleted and R1 lists
\* P1 and P2 as before.
C18_Witness ==
    /\ Deleted("processes", "P1")
    /\ DOMAIN before.entities = {"P1", "P2"}
    /\ DOMAIN processes = {"P2"}
    /\ "R1" \in DOMAIN reactions
    /\ before.reactions["R1"].processes = <<"P1", "P2">>
    /\ reactions["R1"].processes = <<"P1", "P2">>

\* C19: a delete directive of curate_metabolites for a metabolite X of the
\* collection removes X, keeps every reaction, and leaves in every reaction
\* exactly the participants whose metabolite is not X, in their order, the
\* reaction's other fields as they were.
C19_MetaboliteDelete ==
    \A X \in MetaboliteIds :
        (Deleted("metabolites", X) /\ X \in DOMAIN before.entities)
        => /\ metabolites = Del(before.entities, X)
           /\ DOMAIN reactions = DOMAIN before.reactions
           /\ \A key \in DOMAIN before.reactions :
                  LET Other(party) == party.metabolite # X
                  IN reactions[key] =
                         [before.reactions[key] EXCEPT
                             !.participants = SelectSeq(@, Other)]

\* R1 had two consecutive participants M1 and R2 one participant M2: the
\* delete of M1 left R1 in the collection without participants and R2 as it was.
C19_Witness ==
    /\ Deleted("metabolites", "M1")
    /\ "M1" \in DOMAIN before.entities
    /\ DOMAIN before.reactions = {"R1", "R2"}
    /\ Len(before.reactions["R1"].participants) = 2
    /\ before.reactions["R1"].participants[1].metabolite = "M1"
    /\ before.reactions["R1"].participants[2].metabolite = "M1"
    /\ Len(before.reactions["R2"].participants) = 1
    /\ before.reactions["R2"].participants[1].metabolite = "M2"
    /\ DOMAIN reactions = {"R1", "R2"}
    /\ reactions["R1"].participants = <<>>
    /\ reactions["R2"] = before.reactions["R2"]

----------------------------------------------------------------------------
(* Participants under a rename or merge of curate_metabolites.             *)

\* C20: after a rename or merge directive A -> B of curate_metabolites, every
\* reaction has as many participants as before, in the same order: those that
\* referenced A reference B, the others are as they were, and participants that
\* have become equal are all in the list.
C20_ParticipantsCounted ==
    \A A \in MetaboliteIds, B \in MetaboliteIds :
        RenamedMetabolite(A, B)
        => /\ DOMAIN reactions = DOMAIN before.reactions
           /\ \A key \in DOMAIN before.reactions :
                  LET given == before.reactions[key].participants
                  IN reactions[key].participants =
                         [i \in DOMAIN given |->
                             IF given[i].metabolite = A
                             THEN [given[i] EXCEPT !.metabolite = B]
                             ELSE given[i]]

\* Metabolites {M1, M2}, R1 with the reactants M1 and M2 of compartment c: the
\* merge M1 -> M2 left R1 with two equal participants.
C20_Witness ==
    /\ RenamedMetabolite("M1", "M2")
    /\ DOMAIN before.entities = {"M1", "M2"}
    /\ "R1" \in DOMAIN before.reactions
    /\ Len(before.reactions["R1"].participants) = 2
    /\ before.reactions["R1"].participants[1].metabolite = "M1"
    /\ before.reactions["R1"].participants[2].metabolite = "M2"
    /\ Len(reactions["R1"].participants) = 2
    /\ reactions["R1"].participants[1] = reactions["R1"].participants[2]
    /\ reactions["R1"].participants[1].metabolite = "M2"

----------------------------------------------------------------------------
(* Directives of curate_compartments and the reaction collection.          *)

\* C21: a directive of curate_compartments whose identifier_novel is not
\* "null", whether or not it differs from identifier_original, leaves the
\* reaction collection as it was: every reaction and every participant.
C21_RenameNoCascade ==
    (/\ pc = "compartments"
     /\ record # <<>>
     /\ record[1].identifier_novel # "null")
    => reactions = before.reactions

\* Compartments {c, e}, R1 with a participant in c: the directive c -> e
\* with a new name set the name of c and left R1's participant in c.
C21_Witness ==
    /\ pc = "compartments"
    /\ record # <<>>
    /\ record[1].identifier_original = "c"
    /\ record[1].identifier_novel = "e"
    /\ record[1].name_novel = "n2"
    /\ DOMAIN before.entities = {"c", "e"}
    /\ compartments["c"].name = "n2"
    /\ "R1" \in DOMAIN before.reactions
    /\ Len(before.reactions["R1"].participants) = 1
    /\ before.reactions["R1"].participants[1].compartment = "c"
    /\ reactions = before.reactions

\* A participant of a reaction of the collection is in compartment X.
Houses(reactions_all, X) ==
    \E key \in DOMAIN reactions_all :
        determine_reaction_compartment(X, reactions_all[key])

\* C22 as claimed: after a delete directive of curate_compartments for X, no
\* reaction has a participant in X, whether or not X was a key of the
\* compartment collection.
C22_CascadeAlways ==
    \A X \in CompartmentIds :
        Deleted("compartments", X) => ~Houses(reactions, X)

\* C22 as amended: a delete directive for X removes the reactions that have a
\* participant in X if X is a key of the compartment collection, and then no
\* reaction has a participant in X; if X is no key, the compartments and the
\* reactions, those with a participant in X included, are left as they were.
C22_CascadeIfPresent ==
    \A X \in CompartmentIds :
        Deleted("compartments", X)
        => IF X \in DOMAIN before.entities
           THEN /\ compartments = Del(before.entities, X)
                /\ ~Houses(reactions, X)
                /\ reactions =
                       [key \in {k \in DOMAIN before.reactions :
                                    ~determine_reaction_compartment(
                                         X, before.reactions[k])} |->
                           before.reactions[key]]
           ELSE /\ compartments = before.entities
                /\ reactions = before.reactions

\* Compartments {c}, R1 with a participant in e: the delete of e, which is no
\* key, left R1 and its participant in e.
C22_Witness ==
    /\ Deleted("compartments", "e")
    /\ DOMAIN before.entities = {"c"}
    /\ "R1" \in DOMAIN before.reactions
    /\ Len(before.reactions["R1"].participants) = 1
    /\ before.reactions["R1"].participants[1].compartment = "e"
    /\ "R1" \in DOMAIN reactions
    /\ Houses(reactions, "e")

----------------------------------------------------------------------------
(* The error value and the novel value of a metabolite directive.          *)

\* One database's list after the directive, given the list before it: the
\* error value is in it nowhere, the other entries of the list given are in it
\* in their order, followed by the novel value if that is new to the list and
\* is not the error value.
ReferencesFiltered(given, curated, novel, error) ==
    LET Other(reference) == reference # error
        rest == IF error # "" THEN SelectSeq(given, Other) ELSE given
    IN /\ error # "" => ~In(error, curated)
       /\ curated = IF novel # "" /\ novel # error /\ ~In(novel, given)
                    THEN Append(rest, novel)
                    ELSE rest

----------------------------------------------------------------------------
(* The record whose references a metabolite directive curates.             *)

\* The novel value of a database, unless it is the error value as well, is in
\* the list.
NovelHeld(list, novel, error) ==
    (novel # "" /\ novel # error) => In(novel, list)

----------------------------------------------------------------------------
(* execute_procedure on tables whose directives change names: of an entity *)
(* that is or is not in its collection, with or without reference values,  *)
(* next to one delete directive for each type.                             *)

CompartmentsNaming ==
    {Directive("c", "c", "n2"), Directive("e", "e", "n2"),
     Directive("c", "c", "n1"), Directive("c", "null", "n1")}

ProcessesNaming ==
    {Directive("P1", "P1", "n2"), Directive("P2", "P2", "n2"),
     Directive("P1", "null", "n1")}

MetabolitesNaming ==
    {MetaboliteDirective("M1", "M1", "n2"),
     [MetaboliteDirective("M1", "M1", "n2") EXCEPT !.hmdb_novel = "h3"],
     [MetaboliteDirective("M2", "M2", "n1") EXCEPT !.hmdb_error = "h2"],
     MetaboliteDirective("M1", "null", "n1")}

ReactionsNaming ==
    {Directive("R1", "R1", "n2"), Directive("R2", "R2", "n2"),
     Directive("R1", "null", "n2"), Directive("R2", "null", "n1")}

SourcesNaming ==
    {src \in SourcesProcedure :
        /\ DOMAIN src.compartments = CompartmentIds
        /\ DOMAIN src.reactions = ReactionIds
        /\ Len(src.reactions["R1"].participants) = 2}

InitNaming == \E src \in SourcesNaming : Start(src, "compartments")

NextNaming ==
    \/ Within /\ CompartmentsDirective(CompartmentsNaming)
    \/ CompartmentsReturn
    \/ Within /\ ProcessesDirective(ProcessesNaming)
    \/ ProcessesReturn
    \/ Within /\ MetabolitesDirective(MetabolitesNaming)
    \/ MetabolitesReturn
    \/ Within /\ ReactionsDirective(ReactionsNaming)
    \/ ReactionsReturn
    \/ ReactionsUnbound

SpecNaming == InitNaming /\ [][NextNaming]_vars

\* The last iteration of the stage in progress applied a directive that keeps
\* the identifier X, a key of the stage's collection, and gives another name.
NamedAnew(X) ==
    /\ pc \in {"compartments", "processes", "metabolites", "reactions"}
    /\ record # <<>>
    /\ record[1].identifier_original = X
    /\ record[1].identifier_novel = X
    /\ record[1].name_original # record[1].name_novel
    /\ X \in DOMAIN before.entities

\* The reaction collection is as it was before the last iteration, but for
\* what the iteration did to the reactions as the entities of curate_reactions.
ReactionsKept ==
    reactions = IF pc = "reactions" THEN WorkingEntities ELSE before.reactions

\* C25 as claimed: for every entity type, a directive that keeps the identifier
\* of an entity of the collection and gives another name sets the name of that
\* entity and changes nothing else of the entity collection and nothing of
\* the reaction collection.
C25_NameAlone ==
    \A X \in DOMAIN before.entities :
        NamedAnew(X)
        => /\ WorkingEntities = [before.entities EXCEPT ![X].name = record[1].name_novel]
           /\ ReactionsKept

\* C25 as amended: such a directive sets the name of that entity; for a
\* metabolite it also curates the reference lists of that entity, which stay
\* as they were if the directive carries no reference value; nothing else of
\* the entity collection and nothing of the reaction collection changes.
C25_NameAndReferences ==
    \A X \in DOMAIN before.entities :
        NamedAnew(X)
        => /\ ReactionsKept
           /\ IF pc = "metabolites"
              THEN /\ metabolites =
                          [before.entities EXCEPT
                              ![X].name = record[1].name_novel,
                              ![X].references = metabolites[X].references]
                   /\ metabolites[X].references.pubchem
                          = IF record[1].pubchem_novel = "" /\ record[1].pubchem_error = ""
                            THEN before.entities[X].references.pubchem
                            ELSE CurateReferences(before.entities[X].references.pubchem,
                                                  record[1].pubchem_novel,
                                                  record[1].pubchem_error)
                   /\ metabolites[X].references.hmdb
                          = IF record[1].hmdb_novel = "" /\ record[1].hmdb_error = ""
                            THEN before.entities[X].references.hmdb
                            ELSE CurateReferences(before.entities[X].references.hmdb,
                                                  record[1].hmdb_novel,
                                                  record[1].hmdb_error)
              ELSE WorkingEntities =
                       [before.entities EXCEPT ![X].name = record[1].name_novel]

\* M1, named n1 with the hmdb references [h1], was given the name n2 by a
\* directive with the novel value h3: it is named n2 and has [h1, h3], M2
\* and the reactions are as they were.
C25_Witness ==
    /\ pc = "metabolites"
    /\ NamedAnew("M1")
    /\ record[1].hmdb_novel = "h3"
    /\ DOMAIN before.entities = {"M1", "M2"}
    /\ before.entities["M1"].name = "n1"
    /\ metabolites["M1"].name = "n2"
    /\ metabolites["M1"].references.hmdb = <<"h1", "h3">>
    /\ metabolites["M2"] = before.entities["M2"]
    /\ reactions = before.reactions
    /\ DOMAIN reactions = {"R1", "R2"}

\* The elements of the list that are among the keys, in the order of the list.
RECURSIVE AmongKeys(_, _)
AmongKeys(list, keys) ==
    IF list = <<>>
    THEN <<>>
    ELSE IF Head(list) \in keys
         THEN <<Head(list)>> \o AmongKeys(Tail(list), keys)
         ELSE AmongKeys(Tail(list), keys)

\* C26: filter_reaction_replicates returns a collection with the keys of the
\* collection it is given, in which the replicates list of each reaction is
\* the list it was given without the elements that are no keys, in the same
\* order, and every other field of every reaction is as given.
C26_ReplicatesFiltered ==
    reactions_replicates # <<>>
    => /\ DOMAIN reactions_replicates[1] = DOMAIN reactions
       /\ \A key \in DOMAIN reactions :
              /\ reactions_replicates[1][key].replicates
                     = AmongKeys(reactions[key].replicates, DOMAIN reactions)
              /\ reactions_replicates[1][key]
                     = [reactions[key] EXCEPT
                           !.replicates = reactions_replicates[1][key].replicates]

\* R1 listed R2 and itself, a directive deleted R2, and the collection filtered
\* in that iteration has R1 listing itself alone while the collection given to
\* the filter has the list as it was.
C26_Witness ==
    /\ pc = "reactions"
    /\ reactions_replicates # <<>>
    /\ DOMAIN reactions = {"R1"}
    /\ reactions["R1"].replicates = <<"R2", "R1">>
    /\ reactions_replicates[1]["R1"].replicates = <<"R1">>

----------------------------------------------------------------------------
(* The order of the stages of execute_procedure.                           *)

\* The reactions read from file that the cascade of curate_compartments
\* deleted: those with a participant in a compartment that was read from file
\* and is none of the compartments that curate_compartments returned.
CascadeDeleted ==
    {key \in DOMAIN source.reactions :
        \E i \in DOMAIN source.reactions[key].participants :
            LET compartment == source.reactions[key].participants[i].compartment
            IN /\ compartment \in DOMAIN source.compartments
               /\ compartment \notin DOMAIN compartments}

\* No reaction that the cascade of curate_compartments deleted is a key of the
\* reactions of a later stage, of the collection a later stage filtered or of
\* the final collection, and none is listed as a replicate in the final one.
CascadeDeletedAbsent ==
    pc \in {"processes", "metabolites", "reactions", "done"}
    => \A key \in CascadeDeleted :
           /\ key \notin DOMAIN reactions
           /\ reactions_replicates # <<>> => key \notin DOMAIN reactions_replicates[1]
           /\ pc = "done"
              => \A other \in DOMAIN reactions :
                     \A i \in DOMAIN reactions[other].replicates :
                         reactions[other].replicates[i] # key

\* A stage is followed by the next of compartments, processes, metabolites,
\* reactions, and is called with the reactions the stage before returned.
StagesInOrder ==
    pc' # pc
    => /\ <<pc, pc'>> \in {<<"compartments", "processes">>,
                           <<"processes", "metabolites">>,
                           <<"metabolites", "reactions">>,
                           <<"reactions", "done">>, <<"reactions", "error">>}
       /\ pc' \in {"processes", "metabolites", "reactions"}
          => /\ arguments'.passed.reactions = reactions
             /\ reactions' = reactions

\* C27: the stages run in the order compartments, processes, metabolites,
\* reactions, each called with the reactions that the stage before returned;
\* a reaction deleted by the cascade of a compartment delete directive is no
\* key of the reactions of any later stage nor of the final reactions, and no
\* replicates list of the final reactions names it.
C27_StagesInOrder ==
    []CascadeDeletedAbsent /\ [][StagesInOrder]_vars

\* R1 had a participant in e and R2, in c, listed R1 as replicate; compartment
\* e was deleted, and the procedure ended with R2 alone, listing no replicate.
C27_Witness ==
    /\ pc = "done"
    /\ DOMAIN source.compartments = {"c", "e"}
    /\ DOMAIN source.reactions = {"R1", "R2"}
    /\ source.reactions["R2"].replicates = <<"R1">>
    /\ DOMAIN compartments = {"c"}
    /\ CascadeDeleted = {"R1"}
    /\ DOMAIN reactions = {"R2"}
    /\ reactions["R2"].replicates = <<>>

----------------------------------------------------------------------------
(* A stage run on a directive list in two parts.                           *)

\* The collections read from file, R1 with two participants.
SourcesParts ==
    {src \in SourcesRepeat : Len(src.reactions["R1"].participants) = 2}

InitParts ==
    \E src \in SourcesParts :
        \E stage \in {"compartments", "processes", "metabolites", "reactions"} :
            Start(src, stage)

NextParts == RepeatDirective \/ RepeatFirst

SpecParts == InitParts /\ [][NextParts]_vars

\* What the stage returns for the records after the first index records of the
\* table, called on what it returned for the first index records.
CuratedInParts(index) ==
    LET first == Curate(pc, SubSeq(curation, 1, index), Entities(pc, source),
                        source.reactions)
    IN Curate(pc, SubSeq(curation, index + 1, Len(curation)), first.entities,
              first.reactions)

\* The numbers of records a first part of the table may have: any for
\* curate_compartments, curate_processes and curate_metabolites, those that
\* leave both parts with a record for curate_reactions.
Parts ==
    IF pc = "reactions" THEN 1 .. (Len(curation) - 1) ELSE 0 .. Len(curation)

\* C28: for every split of a directive list into a first and a second part, a
\* stage run on the whole list returns the collections that it returns when
\* run on the first part and then, on what that run returned, on the second
\* part (for curate_reactions with a record in both parts).
C28_InParts ==
    Len(product) = 1
    => \A index \in Parts : CuratedInParts(index) = product[1]

\* Metabolites {M1}: the list [rename M1 -> M2, delete M2] returned no
\* metabolite, as the run on the rename followed by the run on the delete
\* does, while the list in the other order returns M2.
C28_Witness ==
    /\ pc = "metabolites"
    /\ DOMAIN source.metabolites = {"M1"}
    /\ curation = <<MetaboliteDirective("M1", "M2", "n1"),
                    MetaboliteDirective("M2", "null", "n1")>>
    /\ Len(product) = 1
    /\ DOMAIN product[1].entities = {}
    /\ CuratedInParts(1) = product[1]
    /\ DOMAIN Curate(pc, <<curation[2], curation[1]>>, source.metabolites,
                     source.reactions).entities = {"M2"}

----------------------------------------------------------------------------
(* The keys of the reactions through curate_processes and curate_metabolites. *)

\* Every reaction of the collection carries its key as identifier.
KeyedByIdentifier(reactions_all) ==
    \A key \in DOMAIN reactions_all : reactions_all[key].identifier = key

\* C29: if every reaction given to curate_processes or curate_metabolites
\* carries its key as identifier, the reactions returned have the keys of the
\* reactions given, each reaction under its identifier.
C29_ReactionKeysKept ==
    (/\ pc \in {"processes", "metabolites"}
     /\ Len(product) >= 1
     /\ KeyedByIdentifier(source.reactions))
    => /\ DOMAIN product[1].reactions = DOMAIN source.reactions
       /\ KeyedByIdentifier(product[1].reactions)

\* Metabolites {M1, M2}; R1 with participants M1 and M2, R2 with none: the
\* list [rename M1 -> M2, delete M2] returned R1 and R2, both without
\* participants.
C29_Witness ==
    /\ pc = "metabolites"
    /\ Len(product) >= 1
    /\ DOMAIN source.metabolites = {"M1", "M2"}
    /\ DOMAIN source.reactions = {"R1", "R2"}
    /\ Len(source.reactions["R1"].participants) = 2
    /\ source.reactions["R1"].participants[1].metabolite = "M1"
    /\ source.reactions["R1"].participants[2].metabolite = "M2"
    /\ curation = <<MetaboliteDirective("M1", "M2", "n1"),
                    MetaboliteDirective("M2", "null", "n1")>>
    /\ DOMAIN product[1].reactions = {"R1", "R2"}
    /\ product[1].reactions["R1"].participants = <<>>
    /\ product[1].reactions["R2"] = source.reactions["R2"]

----------------------------------------------------------------------------
(* What curate_reactions leaves of the reactions it is given.              *)

\* The reaction of the collection is one of the reactions curate_reactions
\* was called with, with the participants and the processes it was given.
AsGiven(reactions_all, key) ==
    /\ key \in DOMAIN arguments.passed.reactions
    /\ reactions_all[key].identifier = arguments.passed.reactions[key].identifier
    /\ reactions_all[key].participants = arguments.passed.reactions[key].participants
    /\ reactions_all[key].processes = arguments.passed.reactions[key].processes

\* The last iteration of the loop of curate_reactions applied a delete directive.
ReactionDeleted ==
    pc = "reactions" /\ record # <<>> /\ record[1].identifier_novel = "null"

\* C30: every reaction of the working collection of curate_reactions, of the
\* collection it filters and of the collection it returns is a reaction it was
\* given, with the participants and processes given; an iteration changes
\* the name of the reaction its directive names, to name_novel, and no other
\* name; and a directive with identifier_novel "null" leaves its
\* identifier_original no key, whatever its names.
C30_ReactionsFrame ==
    pc \in {"reactions", "done"}
    => /\ \A key \in DOMAIN reactions : AsGiven(reactions, key)
       /\ reactions_replicates # <<>>
          => \A key \in DOMAIN reactions_replicates[1] :
                 /\ AsGiven(reactions_replicates[1], key)
                 /\ pc = "reactions"
                    => reactions_replicates[1][key].name = reactions[key].name
       /\ (pc = "reactions" /\ record # <<>>)
          => \A key \in DOMAIN reactions :
                 /\ key \in DOMAIN before.reactions
                 /\ reactions[key].replicates = before.reactions[key].replicates
                 /\ reactions[key].name
                        = IF /\ key = record[1].identifier_original
                             /\ record[1].name_original # record[1].name_novel
                          THEN record[1].name_novel
                          ELSE before.reactions[key].name
       /\ ReactionDeleted
          => /\ DOMAIN reactions = DOMAIN before.reactions \ {record[1].identifier_original}
             /\ DOMAIN reactions_replicates[1] = DOMAIN reactions
       /\ (pc = "reactions" /\ record # <<>> /\ ~ReactionDeleted)
          => DOMAIN reactions = DOMAIN before.reactions

\* curate_reactions was given R1, with two participants and the processes P1
\* and P2, and R2; the directive R1 -> "null" with the names n1 and n2 deleted
\* R1 and left R2 as it was but for its list of replicates in the filtered
\* collection.
C30_Witness ==
    /\ ReactionDeleted
    /\ record[1].identifier_original = "R1"
    /\ record[1].name_original # record[1].name_novel
    /\ DOMAIN arguments.passed.reactions = {"R1", "R2"}
    /\ Len(arguments.passed.reactions["R1"].participants) = 2
    /\ DOMAIN reactions = {"R2"}
    /\ Len(reactions["R2"].participants) = 1
    /\ reactions["R2"].processes = <<"P1">>
    /\ reactions["R2"].replicates = <<"R1">>
    /\ reactions_replicates[1]["R2"].replicates = <<>>
    /\ reactions_replicates[1]["R2"].name = "n1"

====
